---- MODULE Spec2Model ----
(***************************************************************************)
(* The MCP weather demo: MCPWeatherClient sessions (src/client/            *)
(* weather_client.py) talking to the Starlette server (src/server/         *)
(* weather_server.py) over one POST channel and one SSE push stream per    *)
(* session.  Every asyncio coroutine is cut at its await points; what runs *)
(* between two awaits is one action.                                       *)
(***************************************************************************)
EXTENDS Integers, Sequences, FiniteSets, TLC

\* ------------------------------------------------------------------ bounds
MaxRequests == 3
MaxInject == 1

Clients == {"c1", "c2"}

\* ------------------------------------------------------- program constants
MethodNotFound == -32601
ProtocolVersion == "2024-11-05"
HttpOk == 200
HttpError == 500


VARIABLES
    message_id,       \* client: MCPWeatherClient.message_id
    sse_task,         \* client: MCPWeatherClient.sse_task (state of the listener task)
    response_queue,   \* client: MCPWeatherClient.response_queue
    http_client,      \* client: MCPWeatherClient.http_client, "open" or "closed"
    calls,            \* client: the coroutines connect/list_tools/call_tool/_send_request
    posts,            \* POST /message requests on their way to the server
    sse_connections,  \* server: the module-level list of subscriber queues
    waiters_at_close, \* history: the calls, if several, that waited when the stream closed
    sessions,         \* the MCPWeatherClient objects that have been constructed
    budget            \* what a behaviour may still do: calls to start, frames to inject

vars == <<message_id, sse_task, response_queue, http_client, calls, posts,
          sse_connections, waiters_at_close, sessions, budget>>

\* ------------------------------------------------------------ JSON values
NoResult == [shape |-> "none", protocolVersion |-> "", tools |-> <<>>, content |-> <<>>]
NoError == [code |-> 0, message |-> <<>>]
NoSrc == <<"", 0>>

\* A decoded JSON value as the client sees it.  isobj: a dict; hasid: the
\* dict holds "id"; kind: which of "result" / "error" the dict holds.
\* src is history only (the call whose request produced the value).
NoValue == [isobj |-> FALSE, hasid |-> FALSE, id |-> 0, kind |-> "none",
            result |-> NoResult, error |-> NoError, src |-> NoSrc]
NonObject == [NoValue EXCEPT !.kind = "array"]
ObjNoId == [NoValue EXCEPT !.isobj = TRUE]

SuccessResponse(msg_id, result, src) ==
    [isobj |-> TRUE, hasid |-> TRUE, id |-> msg_id, kind |-> "result",
     result |-> result, error |-> NoError, src |-> src]

FailureResponseNoId(msg_id, code, message, src) ==
    [isobj |-> TRUE, hasid |-> FALSE, id |-> 0, kind |-> "error",
     result |-> NoResult, error |-> [code |-> code, message |-> message], src |-> src]

FailureResponse(msg_id, code, message, src) ==
    [isobj |-> TRUE, hasid |-> TRUE, id |-> msg_id, kind |-> "error",
     result |-> NoResult, error |-> [code |-> code, message |-> message], src |-> src]

\* json.dumps / json.loads on the push stream: a frame is text that either
\* is well-formed JSON for some value or is not JSON at all.
json_dumps(v) == [wf |-> TRUE, val |-> v]
BadText == [wf |-> FALSE, val |-> NoValue]
json_loads(w) == IF w.wf THEN [ok |-> TRUE, val |-> w.val]
                 ELSE [ok |-> FALSE, val |-> NoValue]

InjectFrames == {BadText, json_dumps(NonObject), json_dumps(ObjNoId)}

\* ---------------------------------------------------------------- server
TextContent(text) == [type |-> "text", text |-> text]

arguments_is_dict(arguments) == arguments # "nondict"
arguments_get_city(arguments) == IF arguments = "city" THEN "London" ELSE ""

\* fetch_weather_data: the wttr.in round trip either yields data or raises.
fetch_weather_data(city, net) ==
    IF net = "up" THEN [raised |-> FALSE, data |-> city]
    ELSE [raised |-> TRUE, data |-> "Failed to fetch weather data"]

Returned(content) == [raised |-> FALSE, content |-> content]
Raised == [raised |-> TRUE, content |-> <<>>]

\* call_tool(name, arguments).  arguments.get(...) raises AttributeError on
\* a value that is no dict, before the try block is entered.
call_tool(name, arguments, net) ==
    IF name \in {"get_current_weather", "get_forecast"}
    THEN IF ~arguments_is_dict(arguments) THEN Raised
         ELSE IF arguments_get_city(arguments) = ""
         THEN Returned(<<TextContent("Error: City parameter is required")>>)
         ELSE LET f == fetch_weather_data(arguments_get_city(arguments), net)
              IN IF f.raised
                 THEN Returned(<<TextContent("Error: Failed to fetch weather data")>>)
                 ELSE IF name = "get_current_weather"
                      THEN Returned(<<TextContent("Current Weather in London")>>)
                      ELSE Returned(<<TextContent("3-Day Weather Forecast for London")>>)
    ELSE Returned(<<TextContent("Error: Unknown tool")>>)

list_tools == <<"get_current_weather", "get_forecast">>

BuiltIn == {"initialize", "tools/list", "tools/call"}

\* handle_message's else branch: the answer to a method it does not know.
UnknownMethodSuccess(body, src) == SuccessResponse(body.id, NoResult, src)

UnknownMethod(body, src) ==
    FailureResponse(body.id, MethodNotFound, <<"Method not found", body.method>>, src)

InitializeOnce(body, src) ==
    IF body.id > 1
    THEN FailureResponse(body.id, MethodNotFound, <<"Already initialized">>, src)
    ELSE SuccessResponse(body.id,
             [NoResult EXCEPT !.shape = "init", !.protocolVersion = ProtocolVersion], src)

\* handle_message's initialize branch: the same literal result every time.
Initialize(body, src) ==
    SuccessResponse(body.id,
        [NoResult EXCEPT !.shape = "init", !.protocolVersion = ProtocolVersion], src)

ContentTail(result) ==
    [i \in 1..(Len(result) - 1) |->
        [type |-> result[i + 1].type, text |-> result[i + 1].text]]

\* [{"type": content.type, "text": content.text} for content in result]
Content(result) ==
    [i \in DOMAIN result |-> [type |-> result[i].type, text |-> result[i].text]]

\* The body of handle_message's try block up to the fan-out: the response
\* dict, or an exception.
Dispatch(body, src, net) ==
    IF body.method = "initialize"
    THEN [raised |-> FALSE, response |-> Initialize(body, src)]
    ELSE IF body.method = "tools/list"
    THEN [raised |-> FALSE,
          response |-> SuccessResponse(body.id,
              [NoResult EXCEPT !.shape = "tools", !.tools = list_tools], src)]
    ELSE IF body.method = "tools/call"
    THEN LET r == call_tool(body.name, body.arguments, net)
         IN IF r.raised THEN [raised |-> TRUE, response |-> NoValue]
            ELSE [raised |-> FALSE,
                  response |-> SuccessResponse(body.id,
                      [NoResult EXCEPT !.shape = "content",
                                       !.content = Content(r.content)],
                      src)]
    ELSE [raised |-> FALSE, response |-> UnknownMethod(body, src)]

FanOutFirst(conns, response) ==
    [i \in DOMAIN conns |-> IF i = 1 THEN [conns[i] EXCEPT !.q = Append(@, response)]
                            ELSE conns[i]]

\* for queue in sse_connections: await queue.put(response)
\* (put on an unbounded asyncio.Queue never suspends: the loop is one step)
FanOut(conns, response) ==
    [i \in DOMAIN conns |-> [conns[i] EXCEPT !.q = Append(@, response)]]

\* ---------------------------------------------------------------- client
\* One running or finished coroutine of a session: which method of the
\* class it is, its msg_id (0 before _next_id), where it stands, and how it
\* ended: res is "ok" or the exception, kind the key ("result" / "error")
\* of the dict _send_request returned; from is history only (the src of
\* that dict).  status is the status of the POST's HTTP response while
\* the call holds it (0: none); the call drops the response unread.
Call(api) ==
    [api |-> api, id |-> 0, st |-> "sleep", res |-> "pending", kind |-> "none",
     from |-> NoSrc, status |-> 0]

IdMatchesAny(response, msg_id) == response.hasid

\* response.get("id") == msg_id
IdMatches(response, msg_id) == response.hasid /\ response.id = msg_id

\* What connect / list_tools / call_tool make of the dict _send_request returned.
ApiOutcome(api, response) ==
    IF api = "send_request" THEN "ok"
    ELSE IF response.kind = "result"
    THEN IF \/ api = "connect" /\ response.result.shape = "init"
            \/ api = "list_tools" /\ response.result.shape = "tools"
            \/ api = "call_tool" /\ response.result.shape = "content"
                                 /\ Len(response.result.content) > 0
         THEN "ok"
         ELSE "KeyError"
    ELSE "Exception"

\* The runs explored: one session with MaxRequests calls, one session with
\* one call fewer and MaxInject foreign frames on its push stream, or two
\* sessions sharing one call fewer.
Budgets ==
    {[sessions |-> {"c1"}, calls |-> MaxRequests, frames |-> 0],
     [sessions |-> {"c1"}, calls |-> MaxRequests - 1, frames |-> MaxInject],
     [sessions |-> Clients, calls |-> MaxRequests - 1, frames |-> 0]}

\* The runs explored for the progress properties: one session.
LiveBudgets == {b \in Budgets : b.sessions = {"c1"} /\ b.frames > 0}

\* MCPWeatherClient.__init__ for every session, and the server's module
\* level state.
Constructed(bs) ==
    /\ message_id = [c \in Clients |-> 0]
    /\ sse_task = [c \in Clients |-> "none"]
    /\ response_queue = [c \in Clients |-> <<>>]
    /\ http_client = [c \in Clients |-> "open"]
    /\ calls = [c \in Clients |-> <<>>]
    /\ posts = {}
    /\ sse_connections = <<>>
    /\ waiters_at_close = [c \in Clients |-> {}]
    /\ \E b \in bs :
          /\ sessions = b.sessions
          /\ budget = [calls |-> b.calls, frames |-> b.frames]

Init == Constructed(Budgets)

InitLive == Constructed(LiveBudgets)

next_id_same(c) == IF message_id[c] = 0 THEN 1 ELSE message_id[c]

\* _next_id
next_id(c) == message_id[c] + 1

\* _send_request up to its first await: take an id, build the message and
\* start the POST.  httpx raises RuntimeError at once on a closed client.
send_request(c, k, rec, method, name, arguments) ==
    LET msg_id == next_id(c)
        message == [id |-> msg_id, method |-> method, name |-> name,
                    arguments |-> arguments]
        sent == [rec EXCEPT !.id = msg_id, !.st = "posting"]
        failed == [rec EXCEPT !.id = msg_id, !.st = "done", !.res = "RuntimeError"]
    IN /\ message_id' = [message_id EXCEPT ![c] = msg_id]
       /\ IF http_client[c] = "open"
          THEN /\ posts' = posts \cup {[from |-> c, call |-> k, body |-> message]}
               /\ calls' = [calls EXCEPT ![c] =
                               IF k > Len(@) THEN Append(@, sent) ELSE [@ EXCEPT ![k] = sent]]
          ELSE /\ posts' = posts
               /\ calls' = [calls EXCEPT ![c] =
                               IF k > Len(@) THEN Append(@, failed) ELSE [@ EXCEPT ![k] = failed]]

\* connect(), first step: create the listener task, then sleep.
Connect(c) ==
    /\ c \in sessions
    /\ budget.calls > 0
    /\ budget' = [budget EXCEPT !.calls = @ - 1]
    /\ sse_task[c] = "none"
    /\ sse_task' = [sse_task EXCEPT ![c] = "connecting"]
    /\ calls' = [calls EXCEPT ![c] = Append(@, Call("connect"))]
    /\ UNCHANGED <<message_id, response_queue, http_client, posts, sse_connections,
                   waiters_at_close, sessions>>

\* connect(), after the sleep: _send_request("initialize", ...)
ConnectSend(c, k) ==
    /\ k \in DOMAIN calls[c]
    /\ calls[c][k].st = "sleep"
    /\ send_request(c, k, calls[c][k], "initialize", "", "")
    /\ UNCHANGED <<sse_task, response_queue, http_client, sse_connections,
                   waiters_at_close, sessions, budget>>

\* What a caller can ask of a session besides connect(); _send_request is
\* called with a method the server does not know and with a second
\* "initialize".
CallInputs ==
    {<<"list_tools", "tools/list", "", "">>,
     <<"send_request", "bogus/method", "", "">>,
     <<"send_request", "initialize", "", "">>,
     <<"call_tool", "tools/call", "get_current_weather", "city">>,
     <<"call_tool", "tools/call", "get_forecast", "nondict">>,
     <<"call_tool", "tools/call", "does_not_exist", "empty">>}


\* list_tools / call_tool / _send_request(method) entered by a caller.
Invoke(c, in) ==
    /\ c \in sessions
    /\ budget.calls > 0
    /\ budget' = [budget EXCEPT !.calls = @ - 1]
    /\ send_request(c, Len(calls[c]) + 1, Call(in[1]), in[2], in[3], in[4])
    /\ UNCHANGED <<sse_task, response_queue, http_client, sse_connections,
                   waiters_at_close, sessions>>

\* await http_client.post(...) raises: the request never reached the
\* server (connect error), or the server handled it and the HTTP response
\* was lost or timed out.
PostFail(c, k) ==
    /\ k \in DOMAIN calls[c]
    /\ calls[c][k].st \in {"posting", "responded"}
    /\ calls' = [calls EXCEPT ![c][k].st = "done", ![c][k].res = "TransportError",
                              ![c][k].status = 0]
    /\ posts' = {p \in posts : ~(p.from = c /\ p.call = k)}
    /\ UNCHANGED <<message_id, sse_task, response_queue, http_client,
                   sse_connections, waiters_at_close, sessions, budget>>

\* The POST's HTTP response arrives (its status is never looked at): the
\* call enters the while loop.
PostReturn(c, k) ==
    /\ k \in DOMAIN calls[c]
    /\ calls[c][k].st = "responded"
    /\ calls' = [calls EXCEPT ![c][k].st = "waiting", ![c][k].status = 0]
    /\ UNCHANGED <<message_id, sse_task, response_queue, http_client, posts,
                   sse_connections, waiters_at_close, sessions, budget>>

RecvTearsDown(c, k) ==
    /\ k \in DOMAIN calls[c]
    /\ calls[c][k].st = "waiting"
    /\ response_queue[c] # <<>>
    /\ LET response == Head(response_queue[c])
           rec == calls[c][k]
       IN /\ response_queue' = [response_queue EXCEPT ![c] = Tail(@)]
          /\ calls' = [calls EXCEPT ![c][k] =
                 IF ~response.isobj
                 THEN [rec EXCEPT !.st = "done", !.res = "AttributeError"]
                 ELSE IF IdMatches(response, rec.id)
                 THEN [rec EXCEPT !.st = "done", !.res = ApiOutcome(rec.api, response),
                                  !.kind = response.kind, !.from = response.src]
                 ELSE rec]
          /\ http_client' = [http_client EXCEPT ![c] =
                 IF response.isobj /\ IdMatches(response, rec.id) /\ response.kind = "error"
                 THEN "closed" ELSE @]
    /\ UNCHANGED <<message_id, sse_task, posts, sse_connections,
                   waiters_at_close, sessions, budget>>

\* One turn of the while loop: response = await response_queue.get();
\* return it when response.get("id") == msg_id, drop it otherwise.
\* A value that is no dict has no .get: AttributeError leaves the call.
Recv(c, k) ==
    /\ k \in DOMAIN calls[c]
    /\ calls[c][k].st = "waiting"
    /\ response_queue[c] # <<>>
    /\ LET response == Head(response_queue[c])
           rec == calls[c][k]
       IN /\ response_queue' = [response_queue EXCEPT ![c] = Tail(@)]
          /\ calls' = [calls EXCEPT ![c][k] =
                 IF ~response.isobj
                 THEN [rec EXCEPT !.st = "done", !.res = "AttributeError"]
                 ELSE IF IdMatches(response, rec.id)
                 THEN [rec EXCEPT !.st = "done", !.res = ApiOutcome(rec.api, response),
                                  !.kind = response.kind, !.from = response.src]
                 ELSE rec]
    /\ UNCHANGED <<message_id, sse_task, http_client, posts, sse_connections,
                   waiters_at_close, sessions, budget>>

CaughtNothing(exc) == FALSE

\* except asyncio.CancelledError: pass
Caught(exc) == exc = "CancelledError"

\* The body of disconnect() on a session whose listener task and HTTP
\* client are as given.  A task that is None is skipped; cancel() on a
\* finished task does nothing and awaiting it returns; awaiting a task
\* that is cancelled, now or earlier, raises CancelledError into the
\* try; aclose() is reached only if nothing was raised, and closing a
\* closed client does nothing.
disconnect(task, http) ==
    LET awaited == IF task = "none" THEN "skipped"
                   ELSE IF task = "done" THEN "returned"
                   ELSE "CancelledError"
        raised == awaited \notin {"skipped", "returned"} /\ ~Caught(awaited)
    IN [sse_task |-> IF task \in {"connecting", "listening"} THEN "cancelled" ELSE task,
        http_client |-> IF raised THEN http ELSE "closed",
        raised |-> raised]

\* disconnect(): cancel the listener task if there is one, await it, close
\* the HTTP client.
Disconnect(c) ==
    /\ c \in sessions
    /\ LET d == disconnect(sse_task[c], http_client[c])
       IN /\ sse_task' = [sse_task EXCEPT ![c] = d.sse_task]
          /\ http_client' = [http_client EXCEPT ![c] = d.http_client]
    /\ UNCHANGED <<message_id, response_queue, calls, posts, sse_connections,
                   waiters_at_close, sessions, budget>>

\* _sse_listener, one event of aiter_sse: json.loads, then put; a
\* JSONDecodeError is swallowed.
OnFrame(c, w) ==
    LET d == json_loads(w)
    IN response_queue' = [response_queue EXCEPT ![c] =
                             IF d.ok THEN Append(@, d.val) ELSE @]

\* handle_sse / event_generator entered for a listener that connects.
SseOpen(c) ==
    /\ sse_task[c] = "connecting"
    /\ http_client[c] = "open"
    /\ sse_task' = [sse_task EXCEPT ![c] = "listening"]
    /\ sse_connections' = Append(sse_connections, [owner |-> c, q |-> <<>>])
    /\ UNCHANGED <<message_id, response_queue, http_client, calls, posts, waiters_at_close,
                   sessions, budget>>

\* event_generator: message = await queue.get(); yield json.dumps(message),
\* and the listener's loop body on the event.
SseDeliver(i) ==
    /\ i \in DOMAIN sse_connections
    /\ sse_connections[i].q # <<>>
    /\ sse_task[sse_connections[i].owner] = "listening"
    /\ sse_connections' = [sse_connections EXCEPT ![i].q = Tail(@)]
    /\ OnFrame(sse_connections[i].owner, json_dumps(Head(sse_connections[i].q)))
    /\ UNCHANGED <<message_id, sse_task, http_client, calls, posts, waiters_at_close,
                   sessions, budget>>

\* A frame on the push stream that this server did not write.
SseInject(c, w) ==
    /\ budget.frames > 0
    /\ sse_task[c] = "listening"
    /\ budget' = [budget EXCEPT !.frames = @ - 1]
    /\ OnFrame(c, w)
    /\ UNCHANGED <<message_id, sse_task, http_client, calls, posts, sse_connections,
                   waiters_at_close, sessions>>

\* _sse_listener ends: the stream reaches EOF, or an exception is caught
\* by "except Exception" (a failed connect included).
SseEnd(c) ==
    /\ sse_task[c] \in {"connecting", "listening"}
    /\ sse_task' = [sse_task EXCEPT ![c] = "done"]
    /\ LET waiters == {k \in DOMAIN calls[c] : calls[c][k].st = "waiting"}
       IN waiters_at_close' = [waiters_at_close EXCEPT ![c] =
              IF sse_task[c] = "listening" /\ Cardinality(waiters) > 1
              THEN waiters ELSE @]
    /\ UNCHANGED <<message_id, response_queue, http_client, calls, posts,
                   sse_connections, sessions, budget>>

RemoveFrom(s, i) == SubSeq(s, 1, i - 1)

RemoveFirst(s, i) == Tail(s)

\* list.remove(queue): the one element goes, the others keep their order.
RemoveAt(s, i) == [j \in 1..(Len(s) - 1) |-> IF j < i THEN s[j] ELSE s[j + 1]]

\* event_generator's finally, once the peer is gone: sse_connections.remove(queue)
SseClose(i) ==
    /\ i \in DOMAIN sse_connections
    /\ sse_task[sse_connections[i].owner] \in {"done", "cancelled"}
    /\ sse_connections' = RemoveAt(sse_connections, i)
    /\ UNCHANGED <<message_id, sse_task, response_queue, http_client, calls, posts,
                   waiters_at_close, sessions, budget>>

NeedsFetch(body) ==
    /\ body.method = "tools/call"
    /\ body.name \in {"get_current_weather", "get_forecast"}
    /\ body.arguments = "city"

HandleMessageEnqueuesFailure(p, net) ==
    /\ p \in posts
    /\ net = "down" => NeedsFetch(p.body)
    /\ LET d == Dispatch(p.body, <<p.from, p.call>>, net)
       IN /\ sse_connections' =
                IF d.raised
                THEN FanOut(sse_connections,
                            FailureResponse(p.body.id, MethodNotFound, <<"Internal error">>,
                                            <<p.from, p.call>>))
                ELSE FanOut(sse_connections, d.response)
          /\ calls' = [calls EXCEPT
                ![p.from][p.call].st = IF @ = "posting" THEN "responded" ELSE @,
                ![p.from][p.call].status = IF d.raised THEN HttpError ELSE HttpOk]
    /\ posts' = posts \ {p}
    /\ UNCHANGED <<message_id, sse_task, response_queue, http_client, waiters_at_close,
                   sessions, budget>>

\* handle_message: the whole handler for one POST.  An exception anywhere
\* in the try block skips the fan-out and is answered with status 500;
\* otherwise the Response is fanned out and the POST answered with the
\* default status.
HandleMessage(p, net) ==
    /\ p \in posts
    /\ net = "down" => NeedsFetch(p.body)
    /\ LET d == Dispatch(p.body, <<p.from, p.call>>, net)
       IN /\ sse_connections' = IF d.raised THEN sse_connections
                                ELSE FanOut(sse_connections, d.response)
          /\ calls' = [calls EXCEPT
                ![p.from][p.call].st = IF @ = "posting" THEN "responded" ELSE @,
                ![p.from][p.call].status = IF d.raised THEN HttpError ELSE HttpOk]
    /\ posts' = posts \ {p}
    /\ UNCHANGED <<message_id, sse_task, response_queue, http_client, waiters_at_close,
                   sessions, budget>>

Next ==
    \/ \E c \in Clients : Connect(c)
    \/ \E c \in Clients : \E k \in DOMAIN calls[c] : ConnectSend(c, k)
    \/ \E c \in Clients : \E in \in CallInputs : Invoke(c, in)
    \/ \E c \in Clients : \E k \in DOMAIN calls[c] : PostFail(c, k)
    \/ \E c \in Clients : \E k \in DOMAIN calls[c] : PostReturn(c, k)
    \/ \E c \in Clients : \E k \in DOMAIN calls[c] : Recv(c, k)
    \/ \E c \in Clients : Disconnect(c)
    \/ \E c \in Clients : SseOpen(c)
    \/ \E i \in DOMAIN sse_connections : SseDeliver(i)
    \/ \E c \in Clients : \E w \in InjectFrames : SseInject(c, w)
    \/ \E c \in Clients : SseEnd(c)
    \/ \E i \in DOMAIN sse_connections : SseClose(i)
    \/ \E p \in posts : \E net \in {"up", "down"} : HandleMessage(p, net)

Spec == Init /\ [][Next]_vars

\* What asyncio and the network do when nothing fails: a sleeping, posted
\* or waiting coroutine that can run does run, a connecting stream opens,
\* a queued event is delivered, a request on the wire is handled.  Nothing
\* obliges a caller to start a call, a stream to fail, or a peer to inject.
Fairness ==
    /\ \A c \in Clients : \A k \in 1..(MaxRequests + 1) :
          /\ WF_vars(ConnectSend(c, k))
          /\ WF_vars(PostReturn(c, k))
          /\ WF_vars(Recv(c, k))
    /\ \A c \in Clients : WF_vars(SseOpen(c))
    /\ \A i \in 1..Cardinality(Clients) : WF_vars(SseDeliver(i))
    /\ WF_vars(\E p \in posts : \E net \in {"up", "down"} : HandleMessage(p, net))

FairSpec == InitLive /\ [][Next]_vars /\ Fairness

\* ================================================================ claims
Waiting(c, k) == k \in DOMAIN calls[c] /\ calls[c][k].st = "waiting"
Done(c, k) == k \in DOMAIN calls[c] /\ calls[c][k].st = "done"
Last(q) == q[Len(q)]

\* The step handles POST p: handle_message is the only step that takes a
\* request off the wire and leaves its call waiting for the HTTP response.
Handled(p) ==
    /\ p \in posts
    /\ p \notin posts'
    /\ calls'[p.from][p.call].st = "responded"

\* The step puts exactly one new dict on every subscriber queue and leaves
\* the list of subscribers as it was.
EnqueuedOnAll ==
    /\ Len(sse_connections') = Len(sse_connections)
    /\ \A i \in DOMAIN sse_connections :
          /\ sse_connections'[i].owner = sse_connections[i].owner
          /\ Len(sse_connections'[i].q) = Len(sse_connections[i].q) + 1
          /\ SubSeq(sse_connections'[i].q, 1, Len(sse_connections[i].q)) = sse_connections[i].q

\* The step takes the head of c's response_queue.
Dequeues(c) ==
    /\ response_queue[c] # <<>>
    /\ response_queue'[c] = Tail(response_queue[c])

\* ---- C1 ----------------------------------------------------------------
\* C1: if the push stream closes while two calls of the session wait for
\* their replies, both calls eventually finish; neither stays blocked.
C1_PendingCallsFinishOnStreamClose ==
    \A c \in Clients : \A k1, k2 \in 1..MaxRequests :
        (k1 < k2 /\ {k1, k2} \subseteq waiters_at_close[c])
            ~> (Done(c, k1) /\ Done(c, k2))

\* ---- C2 ----------------------------------------------------------------
\* The dict f was computed for call k of session c, which has not finished.
ForPendingCall(c, f, k) ==
    /\ f.src = <<c, k>>
    /\ k \in DOMAIN calls[c]
    /\ calls[c][k].st # "done"

\* C2: with two _send_request calls pending on one session and the replies
\* to both delivered, each call returns the Response carrying its own id:
\* when the queue holds the replies to two unfinished calls, the reply
\* taken from it is returned by the call it was computed for, in either
\* order of arrival.
C2_EachCallGetsOwnResponse ==
    [][\A c \in Clients :
          Dequeues(c) =>
             LET f == Head(response_queue[c])
                 k == f.src[2]
             IN (/\ ForPendingCall(c, f, k)
                 /\ \E j \in DOMAIN response_queue[c] : \E k2 \in DOMAIN calls[c] :
                       k2 # k /\ ForPendingCall(c, response_queue[c][j], k2))
                   => (calls'[c][k].st = "done" /\ calls'[c][k].from = f.src)]_vars

\* ---- C3 ----------------------------------------------------------------
\* C3: at most one Response is ever returned to the caller of an id: a
\* finished call never changes again, a call that returns a Response takes
\* from the queue a dict carrying its own id, and a dict whose id no
\* waiting call has is dropped without becoming the result of any call.
C3_AtMostOneResponsePerId ==
    [][\A c \in Clients :
          /\ \A k \in DOMAIN calls[c] :
                /\ calls[c][k].st = "done" => calls'[c][k] = calls[c][k]
                /\ (calls[c][k].st # "done" /\ calls'[c][k].st = "done"
                      /\ calls'[c][k].kind # "none")
                   => /\ Dequeues(c)
                      /\ Head(response_queue[c]).hasid
                      /\ Head(response_queue[c]).id = calls[c][k].id
                      /\ \A j \in DOMAIN calls[c] \ {k} : calls'[c][j] = calls[c][j]
          /\ (/\ Dequeues(c)
              /\ Head(response_queue[c]).hasid
              /\ ~\E k \in DOMAIN calls[c] :
                    Waiting(c, k) /\ calls[c][k].id = Head(response_queue[c]).id)
             => calls'[c] = calls[c]]_vars

\* A call has returned its Response and a second dict with the same id (a
\* duplicate, no caller waiting for it) sits in the session's queue.
C3_Witness ==
    \E c \in Clients : \E k \in DOMAIN calls[c] :
        /\ calls[c][k].st = "done"
        /\ calls[c][k].kind # "none"
        /\ \E j \in DOMAIN response_queue[c] :
              response_queue[c][j].hasid /\ response_queue[c][j].id = calls[c][k].id

\* ---- C4 ----------------------------------------------------------------
DeclaredTools == {list_tools[i] : i \in DOMAIN list_tools}

\* C4: a tools/call request naming a capability that is not declared puts
\* a Failure Response (an "error"), never a Success, on the push streams.
C4_UnknownToolYieldsFailure ==
    [][\A p \in posts :
          (Handled(p) /\ p.body.method = "tools/call" /\ p.body.name \notin DeclaredTools)
             => /\ EnqueuedOnAll
                /\ \A i \in DOMAIN sse_connections :
                      /\ Last(sse_connections'[i].q).kind = "error"
                      /\ Last(sse_connections'[i].q).id = p.body.id]_vars

\* ---- C5 ----------------------------------------------------------------
CollaboratorRaises(body) ==
    /\ body.method = "tools/call"
    /\ \A net \in {"up", "down"} : call_tool(body.name, body.arguments, net).raised

\* C5: when the collaborator raises while serving a tools/call request, a
\* Failure Response carrying the request's id is put on the push streams.
C5_CollaboratorErrorYieldsFailure ==
    [][\A p \in posts :
          (Handled(p) /\ CollaboratorRaises(p.body))
             => /\ EnqueuedOnAll
                /\ \A i \in DOMAIN sse_connections :
                      /\ Last(sse_connections'[i].q).kind = "error"
                      /\ Last(sse_connections'[i].q).id = p.body.id]_vars

\* ---- C6 ----------------------------------------------------------------
\* The request of call k was handled and no Response carrying its id is
\* left anywhere on the way to session c.
ReplyAbsent(c, k) ==
    /\ Waiting(c, k)
    /\ \A j \in DOMAIN response_queue[c] : ~IdMatches(response_queue[c][j], calls[c][k].id)
    /\ \A i \in DOMAIN sse_connections :
          sse_connections[i].owner = c =>
             \A j \in DOMAIN sse_connections[i].q :
                 ~IdMatches(sse_connections[i].q[j], calls[c][k].id)

\* C6: a call whose reply does not arrive ends (with a timeout failure)
\* instead of waiting on.
C6_UnansweredCallTimesOut ==
    \A c \in Clients : \A k \in 1..MaxRequests :
        (sse_task[c] = "listening" /\ ReplyAbsent(c, k)) ~> Done(c, k)

\* ---- why a blocked call stays blocked ----------------------------------
\* Only the listener puts on response_queue and an ended listener is never
\* restarted: a call that waits on an empty queue after the listener has
\* ended waits from then on, whatever else happens.
BlockedAfterListenerEnd ==
    [][\A c \in Clients : \A k \in DOMAIN calls[c] :
          (Waiting(c, k) /\ sse_task[c] \in {"done", "cancelled"} /\ response_queue[c] = <<>>)
             => (calls'[c][k] = calls[c][k] /\ response_queue'[c] = <<>>
                   /\ sse_task'[c] = sse_task[c])]_vars

\* With one session, a waiting call whose reply is nowhere on its way never
\* gets one: it goes on waiting unless a frame that is no dict ends it.
BlockedWithoutReply ==
    [][\A c \in Clients : \A k \in DOMAIN calls[c] :
          (sessions = {c} /\ ReplyAbsent(c, k))
             => (ReplyAbsent(c, k)' \/ calls'[c][k].res = "AttributeError")]_vars

\* ---- C7 ----------------------------------------------------------------
\* C7: connect() always terminates, by returning or by raising.
C7_ConnectTerminates ==
    \A c \in Clients : \A k \in 1..MaxRequests :
        (k \in DOMAIN calls[c] /\ calls[c][k].api = "connect") ~> Done(c, k)

\* ---- C8 ----------------------------------------------------------------
TornDown(c) == sse_task[c] \in {"done", "cancelled"} \/ http_client[c] = "closed"

\* C8: a list/invoke call entered on a torn-down session fails at once: it
\* ends with an exception in the step that starts it and sends no request.
C8_TornDownSessionFailsFast ==
    [][\A c \in Clients :
          (/\ TornDown(c)
           /\ Len(calls'[c]) = Len(calls[c]) + 1
           /\ Last(calls'[c]).api # "connect")
             => /\ Last(calls'[c]).st = "done"
                /\ Last(calls'[c]).res # "ok"
                /\ posts' = posts]_vars

\* ---- C9 ----------------------------------------------------------------
Malformed(v) == ~v.isobj \/ ~v.hasid \/ v.kind = "none"

\* C9: a malformed frame on the push stream is dropped: the listener goes
\* on reading, and the frame ends no call (no call raises because of it).
C9_MalformedFrameDropped ==
    [][\A c \in Clients :
          /\ (budget'.frames < budget.frames) =>
                (sse_task'[c] = sse_task[c] /\ calls'[c] = calls[c])
          /\ (Dequeues(c) /\ Malformed(Head(response_queue[c])))
                => calls'[c] = calls[c]]_vars

\* ---- C10 ---------------------------------------------------------------
\* C10: a request whose method is not built in is answered with a Failure
\* Response carrying the request's id and code -32601, put once on every
\* subscriber queue; the subscriber list is otherwise unchanged.
C10_UnknownMethodYieldsMethodNotFound ==
    [][\A p \in posts :
          (Handled(p) /\ p.body.method \notin BuiltIn)
             => /\ EnqueuedOnAll
                /\ \A i \in DOMAIN sse_connections :
                      /\ Last(sse_connections'[i].q).kind = "error"
                      /\ Last(sse_connections'[i].q).id = p.body.id
                      /\ Last(sse_connections'[i].q).error.code = MethodNotFound]_vars

\* A subscriber holds the method-not-found Failure for a request that was
\* sent with an unknown method.
C10_Witness ==
    \E i \in DOMAIN sse_connections : \E j \in DOMAIN sse_connections[i].q :
        LET f == sse_connections[i].q[j]
        IN /\ f.kind = "error"
           /\ f.error.code = MethodNotFound
           /\ f.src[1] \in Clients
           /\ calls[f.src[1]][f.src[2]].api = "send_request"

\* ---- C11 ---------------------------------------------------------------
\* The step leaves request p's Response on no queue because handling raised.
Raises(body) == \E net \in {"up", "down"} : Dispatch(body, NoSrc, net).raised

\* The step takes subscriber i, and only it, off the list: the others keep
\* their place in the order and what their queues hold.
RemovesOnly(i) ==
    /\ i \in DOMAIN sse_connections
    /\ Len(sse_connections') = Len(sse_connections) - 1
    /\ \A j \in DOMAIN sse_connections' :
          sse_connections'[j] = IF j < i THEN sse_connections[j] ELSE sse_connections[j + 1]

\* C11: a subscriber can be removed around a fan-out (the fan-out loop
\* never suspends, so a removal comes before or after it, never inside):
\* a removal takes exactly the closed stream's subscriber and no request
\* with it; a fan-out neither fails nor skips a subscriber on the list,
\* whether or not the peer of one of them is already gone, and it ends in
\* the step that starts it.
C11_RemovalSafeAroundFanOut ==
    [][/\ Len(sse_connections') < Len(sse_connections) =>
             /\ \E i \in DOMAIN sse_connections :
                   /\ RemovesOnly(i)
                   /\ sse_task[sse_connections[i].owner] \in {"done", "cancelled"}
             /\ posts' = posts
       /\ \A p \in posts :
             (Handled(p) /\ ~Raises(p.body))
                => /\ EnqueuedOnAll
                   /\ \A i \in DOMAIN sse_connections :
                         Last(sse_connections'[i].q).src = <<p.from, p.call>>]_vars

\* Session d had a subscriber (its listener received a frame) that is now
\* removed, and the Response to a request of d sits on a remaining
\* subscriber's queue while d never received it: the fan-out ran next to
\* the removal and reached the subscriber that stayed.
C11_Witness ==
    \E d \in sessions : \E i \in DOMAIN sse_connections :
        /\ sse_task[d] \in {"done", "cancelled"}
        /\ response_queue[d] # <<>>
        /\ \A j \in DOMAIN sse_connections : sse_connections[j].owner # d
        /\ \E n \in DOMAIN sse_connections[i].q :
              /\ sse_connections[i].q[n].src[1] = d
              /\ \A m \in DOMAIN response_queue[d] :
                    response_queue[d][m].src # sse_connections[i].q[n].src

\* ---- C12 ---------------------------------------------------------------
\* C12: the Response computed for a request is put exactly once on the
\* queue of every subscriber on the list at the fan-out and on no other
\* queue: every subscriber queue grows by that one dict, no client queue
\* changes, and no step but the handling of a request grows a subscriber
\* queue.
C12_ResponseOnceOnEverySubscriber ==
    [][/\ \A p \in posts :
             (Handled(p) /\ ~Raises(p.body))
                => /\ EnqueuedOnAll
                   /\ \E net \in {"up", "down"} : \A i \in DOMAIN sse_connections :
                         Last(sse_connections'[i].q)
                            = Dispatch(p.body, <<p.from, p.call>>, net).response
                   /\ response_queue' = response_queue
       /\ (\E i \in DOMAIN sse_connections \cap DOMAIN sse_connections' :
              /\ Len(sse_connections') = Len(sse_connections)
              /\ Len(sse_connections'[i].q) > Len(sse_connections[i].q))
            => \E p \in posts : Handled(p) /\ ~Raises(p.body)]_vars

\* Two subscribers are on the list and each holds, once, the Response to
\* the same request.
C12_Witness ==
    /\ Len(sse_connections) = 2
    /\ \E n1 \in DOMAIN sse_connections[1].q : \E n2 \in DOMAIN sse_connections[2].q :
          /\ sse_connections[1].q[n1] = sse_connections[2].q[n2]
          /\ \A m \in DOMAIN sse_connections[1].q :
                m # n1 => sse_connections[1].q[m].src # sse_connections[1].q[n1].src
          /\ \A m \in DOMAIN sse_connections[2].q :
                m # n2 => sse_connections[2].q[m].src # sse_connections[2].q[n2].src

\* ---- C13 ---------------------------------------------------------------
\* C13: disconnect() is idempotent.  In every state a session can be in
\* (never connected, connecting, listening, listener ended, connect failed,
\* already disconnected) disconnect() does not raise and leaves the
\* listener stopped and the HTTP client closed, and a second disconnect()
\* right after it does not raise either and changes nothing.
C13_DisconnectIdempotent ==
    \A c \in sessions :
        LET d1 == disconnect(sse_task[c], http_client[c])
            d2 == disconnect(d1.sse_task, d1.http_client)
        IN /\ ~d1.raised
           /\ d1.sse_task \in {"none", "done", "cancelled"}
           /\ d1.http_client = "closed"
           /\ ~d2.raised
           /\ d2.sse_task = d1.sse_task
           /\ d2.http_client = d1.http_client

\* disconnect() has run on a session whose connect() failed, and on a
\* session that never called connect().
C13_Witness ==
    /\ \E c \in sessions : \E k \in DOMAIN calls[c] :
          /\ calls[c][k].api = "connect"
          /\ calls[c][k].st = "done"
          /\ calls[c][k].res # "ok"
          /\ sse_task[c] = "cancelled"
          /\ http_client[c] = "closed"
    /\ \E c \in sessions : sse_task[c] = "none" /\ http_client[c] = "closed"

\* ---- C14 ---------------------------------------------------------------
\* C14: within a session the ids given to requests are strictly
\* increasing: message_id never goes down, a call keeps the id it was
\* given, and a call that is given an id gets the new message_id, which is
\* greater than the old one and than the id of every call of the session,
\* finished or not.
C14_IdsStrictlyIncreasing ==
    [][\A c \in Clients :
          /\ message_id'[c] >= message_id[c]
          /\ \A k \in DOMAIN calls'[c] :
                IF k \in DOMAIN calls[c] /\ calls[c][k].id # 0
                THEN calls'[c][k].id = calls[c][k].id
                ELSE calls'[c][k].id # 0 =>
                        /\ calls'[c][k].id = message_id'[c]
                        /\ message_id'[c] > message_id[c]
                        /\ \A j \in DOMAIN calls[c] : calls[c][j].id < calls'[c][k].id
          /\ \A p \in posts' \ posts :
                p.from = c => p.body.id = message_id'[c] /\ p.body.id > message_id[c]]_vars

\* A call still waits for its reply while a later call of the same session
\* has been given a greater id.
C14_Witness ==
    \E c \in sessions : \E k1, k2 \in DOMAIN calls[c] :
        /\ calls[c][k1].st = "waiting"
        /\ calls[c][k1].id > 0
        /\ calls[c][k2].id > calls[c][k1].id

\* ---- C15 ---------------------------------------------------------------
\* A call of session c has ended with a Failure Response.
FailedCall(c) ==
    \E k \in DOMAIN calls[c] : calls[c][k].st = "done" /\ calls[c][k].kind = "error"

\* C15: a call that ends in a Failure Response does not tear down the
\* session.  The step in which the call ends leaves the listener, the HTTP
\* client, the subscribers and the requests on the wire as they were; and
\* on a session where a call has ended so, the next request is sent (it
\* goes on the wire), answered (its Response, carrying its id, is put on
\* every subscriber queue) and returned (the call, alone in waiting, takes
\* the dict with its id from the queue and ends with it).
C15_FailureKeepsSession ==
    [][\A c \in Clients :
          /\ \A k \in DOMAIN calls[c] :
                (calls[c][k].st # "done" /\ calls'[c][k].st = "done"
                    /\ calls'[c][k].kind = "error")
                  => /\ sse_task' = sse_task
                     /\ http_client' = http_client
                     /\ sse_connections' = sse_connections
                     /\ posts' = posts
          /\ FailedCall(c) =>
                /\ (/\ Len(calls'[c]) = Len(calls[c]) + 1
                    /\ Last(calls'[c]).api # "connect"
                    /\ http_client[c] = "open")
                      => \E p \in posts' \ posts :
                            /\ p.from = c
                            /\ p.call = Len(calls'[c])
                            /\ p.body.id = Last(calls'[c]).id
                /\ \A p \in posts :
                      (Handled(p) /\ p.from = c /\ ~Raises(p.body))
                        => /\ EnqueuedOnAll
                           /\ \A i \in DOMAIN sse_connections :
                                 IdMatches(Last(sse_connections'[i].q), p.body.id)
                /\ \A k \in DOMAIN calls[c] :
                      (/\ Dequeues(c)
                       /\ IdMatches(Head(response_queue[c]), calls[c][k].id)
                       /\ \A j \in DOMAIN calls[c] : Waiting(c, j) <=> j = k)
                        => /\ calls'[c][k].st = "done"
                           /\ calls'[c][k].kind = Head(response_queue[c]).kind
                           /\ calls'[c][k].from = Head(response_queue[c]).src]_vars

\* A call of a session has ended with a Failure Response and a later call
\* of the same session has returned the Success Response to its own request.
C15_Witness ==
    \E c \in sessions : \E k1, k2 \in DOMAIN calls[c] :
        /\ calls[c][k1].st = "done"
        /\ calls[c][k1].kind = "error"
        /\ calls[c][k2].id > calls[c][k1].id
        /\ calls[c][k2].st = "done"
        /\ calls[c][k2].kind = "result"
        /\ calls[c][k2].res = "ok"
        /\ calls[c][k2].from = <<c, k2>>

\* ---- C16 ---------------------------------------------------------------
Negotiated ==
    [shape |-> "init", protocolVersion |-> ProtocolVersion, tools |-> <<>>,
     content |-> <<>>]

\* C16: initialize is idempotent on the server: whenever an initialize
\* request is handled, whatever was handled before it, the Response is a
\* Success carrying the request's id and the one negotiated result, never
\* a Failure.
C16_InitializeIdempotent ==
    [][\A p \in posts :
          (Handled(p) /\ p.body.method = "initialize")
             => /\ EnqueuedOnAll
                /\ \A i \in DOMAIN sse_connections :
                      /\ Last(sse_connections'[i].q).kind = "result"
                      /\ Last(sse_connections'[i].q).id = p.body.id
                      /\ Last(sse_connections'[i].q).result = Negotiated
                      /\ Last(sse_connections'[i].q).error = NoError]_vars

\* A subscriber holds the answers to two initialize requests, the second
\* handled after the first and sent with an id greater than 1, and both
\* carry the same result.
C16_Witness ==
    \E i \in DOMAIN sse_connections : \E n1, n2 \in DOMAIN sse_connections[i].q :
        /\ n1 < n2
        /\ sse_connections[i].q[n1].result = Negotiated
        /\ sse_connections[i].q[n2].result = Negotiated
        /\ sse_connections[i].q[n2].id > 1

\* ---- C17 ---------------------------------------------------------------
\* C17: a tools/call request naming a declared tool for which call_tool
\* returns a sequence of content blocks is answered with a Success Response
\* whose content is that sequence: as many blocks, in the same order, each
\* a {type, text} with the block's type and text.
C17_ContentWrappedBlockForBlock ==
    [][\A p \in posts :
          (/\ Handled(p)
           /\ p.body.method = "tools/call"
           /\ p.body.name \in DeclaredTools
           /\ ~Raises(p.body))
             => /\ EnqueuedOnAll
                /\ \E net \in {"up", "down"} :
                      LET blocks == call_tool(p.body.name, p.body.arguments, net).content
                      IN \A i \in DOMAIN sse_connections :
                            LET f == Last(sse_connections'[i].q)
                            IN /\ f.kind = "result"
                               /\ f.id = p.body.id
                               /\ Len(f.result.content) = Len(blocks)
                               /\ \A n \in DOMAIN blocks :
                                     /\ DOMAIN f.result.content[n] = {"type", "text"}
                                     /\ f.result.content[n].type = blocks[n].type
                                     /\ f.result.content[n].text = blocks[n].text]_vars

\* A subscriber holds the Success Response wrapping the block call_tool
\* returned for get_current_weather.
C17_Witness ==
    \E i \in DOMAIN sse_connections : \E n \in DOMAIN sse_connections[i].q :
        LET f == sse_connections[i].q[n]
        IN /\ f.kind = "result"
           /\ f.result.shape = "content"
           /\ f.result.content = <<[type |-> "text", text |-> "Current Weather in London"]>>

\* ---- C18 ---------------------------------------------------------------
\* The reply to call k's request is in the session's queue while the call
\* still awaits its POST.
EarlyReply(c, k) ==
    /\ calls[c][k].st \in {"posting", "responded"}
    /\ \E n \in DOMAIN response_queue[c] : response_queue[c][n].src = <<c, k>>

\* C18: a reply that reaches the listener before its call has started to
\* wait is not lost: it stays in the queue until the call takes it (or the
\* call's POST fails).
C18_EarlyReplyNotLost ==
    [][\A c \in Clients : \A k \in DOMAIN calls[c] :
          EarlyReply(c, k)
             => \/ \E n \in DOMAIN response_queue'[c] : response_queue'[c][n].src = <<c, k>>
                \/ calls'[c][k].st = "done"]_vars

\* The queue keeps an early reply as long as no other call of the session
\* is in the while loop.
EarlyReplyKeptWhenAlone ==
    [][\A c \in Clients : \A k \in DOMAIN calls[c] :
          (EarlyReply(c, k) /\ ~\E j \in DOMAIN calls[c] : Waiting(c, j))
             => \/ \E n \in DOMAIN response_queue'[c] : response_queue'[c][n].src = <<c, k>>
                \/ calls'[c][k].st = "done"]_vars

\* ---- C19 ---------------------------------------------------------------
\* C19: the Response a call returns was computed by the server from the
\* request this call sent, never from a request of another session.
C19_ReplyFromOwnRequest ==
    \A c \in Clients : \A k \in DOMAIN calls[c] :
        (calls[c][k].st = "done" /\ calls[c][k].kind # "none")
           => calls[c][k].from = <<c, k>>

\* With one session every returned Response answers the call's own request.
OwnReplyWithOneSession ==
    Cardinality(sessions) = 1 => C19_ReplyFromOwnRequest

\* ---- C20 ---------------------------------------------------------------
\* C20: every Response put on a subscriber queue carries the id of the
\* request that produced it, and a request handled without an exception
\* produces exactly one Response, which holds either a result or an error,
\* never both and never neither.
C20_OneResponseWithRequestId ==
    [][\A p \in posts :
          (Handled(p) /\ ~Raises(p.body))
             => /\ EnqueuedOnAll
                /\ \A i \in DOMAIN sse_connections :
                      LET f == Last(sse_connections'[i].q)
                      IN /\ f.isobj
                         /\ f.hasid
                         /\ f.id = p.body.id
                         /\ f.id = calls[p.from][p.call].id
                         /\ \/ f.kind = "result" /\ f.result # NoResult /\ f.error = NoError
                            \/ f.kind = "error" /\ f.error # NoError /\ f.result = NoResult]_vars

\* A subscriber holds both kinds of Response, a result and an error, each
\* carrying the id of the call whose request produced it.
C20_Witness ==
    \E i \in DOMAIN sse_connections : \E n1, n2 \in DOMAIN sse_connections[i].q :
        LET f1 == sse_connections[i].q[n1]
            f2 == sse_connections[i].q[n2]
        IN /\ f1.kind = "result"
           /\ f2.kind = "error"
           /\ f1.id = calls[f1.src[1]][f1.src[2]].id
           /\ f2.id = calls[f2.src[1]][f2.src[2]].id

\* ---- C21 ---------------------------------------------------------------
\* C21: when handling a request raises on the server, the POST is answered
\* with the error status and nothing is enqueued: the subscriber list and
\* every subscriber queue are as before, and so is every client queue.
C21_ExceptionEnqueuesNothing ==
    [][\A p \in posts :
          (Handled(p) /\ Raises(p.body))
             => /\ calls'[p.from][p.call].status = HttpError
                /\ sse_connections' = sse_connections
                /\ response_queue' = response_queue]_vars

\* A call holds the error status its POST was answered with while a
\* subscriber is on the list, its queue empty.
C21_Witness ==
    /\ \E c \in sessions : \E k \in DOMAIN calls[c] :
          calls[c][k].st = "responded" /\ calls[c][k].status = HttpError
    /\ \E i \in DOMAIN sse_connections : sse_connections[i].q = <<>>

\* ---- C22 ---------------------------------------------------------------
\* The session's push stream is open on the server side or its peer ended
\* it: a stream that was opened.
Opened(c) == sse_task[c] \in {"listening", "done", "cancelled"}

\* The subscribers of session c on the list.
SubscribersOf(c) == {i \in DOMAIN sse_connections : sse_connections[i].owner = c}

\* The step puts one new subscriber, its queue empty, at the end of the
\* list for a stream that opens in this step, and leaves the others.
AddsOne ==
    /\ Len(sse_connections') = Len(sse_connections) + 1
    /\ SubSeq(sse_connections', 1, Len(sse_connections)) = sse_connections
    /\ Last(sse_connections').q = <<>>
    /\ sse_task[Last(sse_connections').owner] = "connecting"
    /\ sse_task'[Last(sse_connections').owner] = "listening"

\* C22: the subscriber list holds the queues of the push streams that were
\* opened and are not yet closed, each once.  A stream that opens adds one
\* queue; a close removes the queue of a stream whose peer is gone, and
\* only that queue; no other step, the handling of a request included,
\* adds or removes a subscriber.  So in every state a listening stream has
\* exactly one subscriber, a stream that was never opened has none, and no
\* stream has two.
C22_SubscribersAreOpenStreams ==
    [][/\ Len(sse_connections') > Len(sse_connections) => AddsOne
       /\ Len(sse_connections') < Len(sse_connections) =>
             \E i \in DOMAIN sse_connections :
                /\ RemovesOnly(i)
                /\ sse_task[sse_connections[i].owner] \in {"done", "cancelled"}
       /\ (\E c \in Clients : sse_task[c] = "connecting" /\ sse_task'[c] = "listening")
             => AddsOne
       /\ \A p \in posts :
             Handled(p) =>
                /\ Len(sse_connections') = Len(sse_connections)
                /\ \A i \in DOMAIN sse_connections :
                      sse_connections'[i].owner = sse_connections[i].owner
       /\ \A c \in Clients :
             /\ Cardinality(SubscribersOf(c)') <= 1
             /\ sse_task'[c] = "listening" => Cardinality(SubscribersOf(c)') = 1
             /\ ~Opened(c)' => SubscribersOf(c)' = {}]_vars

\* One stream was opened and then closed (its session received a frame and
\* its subscriber is gone) while another is open with its subscriber on
\* the list, and a request has been handled in between.
C22_Witness ==
    \E c, d \in sessions :
        /\ c # d
        /\ sse_task[c] = "listening"
        /\ Cardinality(SubscribersOf(c)) = 1
        /\ sse_task[d] \in {"done", "cancelled"}
        /\ response_queue[d] # <<>>
        /\ SubscribersOf(d) = {}
        /\ Len(sse_connections) = 1

====
